---- MODULE Spec2Model ----
(***************************************************************************)
(* Model of theanets/losses.py: the Loss constructors, Loss.diff, the four *)
(* __call__ formulas and CrossEntropy.accuracy.                            *)
(*                                                                         *)
(* A placeholder is a record [id, kind, rank]; an attribute that Python    *)
(* holds as "None or a value" is a sequence of length 0 or 1.  The data    *)
(* that the engine binds to the placeholders when a built expression is    *)
(* executed is the record env; a loss value is an exact fraction           *)
(* <<numerator, denominator>> (denominator 0 is a division by zero).       *)
(* For CrossEntropy the entries of env.output are the base-10 logarithms   *)
(* of the probabilities, so -log(clip(p, 1e-8, 1)) is exact in units of    *)
(* ln(10).                                                                 *)
(***************************************************************************)
EXTENDS Integers, Sequences, FiniteSets

\* ---------------------------------------------------------------- bounds
\* how far past either end of the container tuples in_dim and out_dim range
DimSlack == 1
\* largest number of elements (rows, for CrossEntropy) bound to a placeholder
MaxLen == 2
\* outputs and float targets range over 0..MaxVal
MaxVal == 1
\* weights range over -1..MaxWt
MaxWt == 2

\* ------------------------------------------------------ program constants
\* 1e-8, the lower clipping bound, as a power of ten
ClipExp == 8

None == << >>

F_CONTAINERS ==
  << [kind |-> "float", rank |-> 0], [kind |-> "float", rank |-> 1],
     [kind |-> "float", rank |-> 2], [kind |-> "float", rank |-> 3],
     [kind |-> "float", rank |-> 4] >>

I_CONTAINERS ==
  << [kind |-> "int", rank |-> 0], [kind |-> "int", rank |-> 1],
     [kind |-> "int", rank |-> 2], [kind |-> "int", rank |-> 3],
     [kind |-> "int", rank |-> 4] >>

\* Python tuple indexing t[i]: a negative i counts from the end
InRange(t, i) == i >= -Len(t) /\ i < Len(t)

Item(t, i) == IF i >= 0 THEN t[i + 1] ELSE t[Len(t) + i + 1]

\* calling a container makes a fresh symbolic variable
NewVar(container, id) ==
  [id |-> id, kind |-> container.kind, rank |-> container.rank]

\* Python truth value of an optional integer: None and 0 are false
Truthy(opt) == opt # None /\ opt[1] # 0

Raise(err) ==
  [error |-> err, input |-> None, target |-> None, weight |-> None,
   variables |-> << >>]

\* the mutant of C3: the weight always takes the input's container
Loss_init_WeightFromInput(in_dim, out_dim, weighted) ==
  IF ~InRange(F_CONTAINERS, in_dim) THEN Raise("IndexError")
  ELSE IF Truthy(out_dim) /\ ~InRange(F_CONTAINERS, out_dim[1])
  THEN Raise("IndexError")
  ELSE
    LET inp == NewVar(Item(F_CONTAINERS, in_dim), 1)
        tgt == IF Truthy(out_dim)
               THEN << NewVar(Item(F_CONTAINERS, out_dim[1]), 2) >>
               ELSE None
        wgt == IF weighted
               THEN << NewVar(Item(F_CONTAINERS, in_dim), Len(tgt) + 2) >>
               ELSE None
    IN [error |-> "none", input |-> << inp >>, target |-> tgt, weight |-> wgt,
        variables |-> (<< inp >> \o tgt) \o wgt]

\* the mutant of C10: the weight is stored but not appended to variables
Loss_init_WeightNotListed(in_dim, out_dim, weighted) ==
  IF ~InRange(F_CONTAINERS, in_dim) THEN Raise("IndexError")
  ELSE IF Truthy(out_dim) /\ ~InRange(F_CONTAINERS, out_dim[1])
  THEN Raise("IndexError")
  ELSE
    LET inp == NewVar(Item(F_CONTAINERS, in_dim), 1)
        tgt == IF Truthy(out_dim)
               THEN << NewVar(Item(F_CONTAINERS, out_dim[1]), 2) >>
               ELSE None
        idx == IF Truthy(out_dim) THEN out_dim[1] ELSE in_dim
        wgt == IF weighted
               THEN << NewVar(Item(F_CONTAINERS, idx), Len(tgt) + 2) >>
               ELSE None
    IN [error |-> "none", input |-> << inp >>, target |-> tgt, weight |-> wgt,
        variables |-> << inp >> \o tgt]

\* Loss.__init__(self, in_dim, out_dim=None, weighted=False)
Loss_init(in_dim, out_dim, weighted) ==
  IF ~InRange(F_CONTAINERS, in_dim) THEN Raise("IndexError")
  ELSE IF Truthy(out_dim) /\ ~InRange(F_CONTAINERS, out_dim[1])
  THEN Raise("IndexError")
  ELSE
    LET inp == NewVar(Item(F_CONTAINERS, in_dim), 1)
        tgt == IF Truthy(out_dim)
               THEN << NewVar(Item(F_CONTAINERS, out_dim[1]), 2) >>
               ELSE None
        idx == IF Truthy(out_dim) THEN out_dim[1] ELSE in_dim
        wgt == IF weighted
               THEN << NewVar(Item(F_CONTAINERS, idx), Len(tgt) + 2) >>
               ELSE None
    IN [error |-> "none", input |-> << inp >>, target |-> tgt, weight |-> wgt,
        variables |-> (<< inp >> \o tgt) \o wgt]

\* the mutant of C9: the target takes a float container, as in the base class
CrossEntropy_init_FloatTarget(in_dim, out_dim, weighted) ==
  IF out_dim = None THEN Raise("TypeError")
  ELSE IF ~InRange(F_CONTAINERS, in_dim) THEN Raise("IndexError")
  ELSE IF ~InRange(I_CONTAINERS, out_dim[1]) THEN Raise("IndexError")
  ELSE
    LET inp == NewVar(Item(F_CONTAINERS, in_dim), 1)
        tgt == NewVar(Item(F_CONTAINERS, out_dim[1]), 2)
        wgt == IF weighted
               THEN << NewVar(Item(F_CONTAINERS, out_dim[1]), 3) >>
               ELSE None
    IN [error |-> "none", input |-> << inp >>, target |-> << tgt >>,
        weight |-> wgt, variables |-> << inp, tgt >> \o wgt]

\* CrossEntropy.__init__(self, in_dim, out_dim, weighted=False); out_dim is a
\* required argument, and the call without it raises before the body runs
CrossEntropy_init(in_dim, out_dim, weighted) ==
  IF out_dim = None THEN Raise("TypeError")
  ELSE IF ~InRange(F_CONTAINERS, in_dim) THEN Raise("IndexError")
  ELSE IF ~InRange(I_CONTAINERS, out_dim[1]) THEN Raise("IndexError")
  ELSE
    LET inp == NewVar(Item(F_CONTAINERS, in_dim), 1)
        tgt == NewVar(Item(I_CONTAINERS, out_dim[1]), 2)
        wgt == IF weighted
               THEN << NewVar(Item(F_CONTAINERS, out_dim[1]), 3) >>
               ELSE None
    IN [error |-> "none", input |-> << inp >>, target |-> << tgt >>,
        weight |-> wgt, variables |-> << inp, tgt >> \o wgt]

BaseClasses == {"Loss", "MeanSquaredError", "MeanAbsoluteError", "Hinge"}

Classes == BaseClasses \cup {"CrossEntropy"}

\* which __init__ a class runs: only CrossEntropy overrides the base one
New(c, in_dim, out_dim, weighted) ==
  IF c = "CrossEntropy" THEN CrossEntropy_init(in_dim, out_dim, weighted)
  ELSE Loss_init(in_dim, out_dim, weighted)

\* ------------------------------------------------------------- arithmetic
RECURSIVE Sum(_)
\* x.sum()
Sum(s) == IF Len(s) = 0 THEN 0 ELSE s[1] + Sum(Tail(s))

\* x.mean(): the sum over the number of elements
Mean(s) == << Sum(s), Len(s) >>

\* abs(x)
Abs(x) == IF x < 0 THEN -x ELSE x

\* TT.maximum(a, b)
Maximum(a, b) == IF a >= b THEN a ELSE b

\* -TT.log(TT.clip(prob, 1e-8, 1)) in units of ln(10), lp = log10(prob)
NegLogClip(lp) == IF lp < -ClipExp THEN ClipExp ELSE IF lp > 0 THEN 0 ELSE -lp

\* TT.argmax over one row: the (1-based) position of the first largest entry
ArgMax(row) ==
  CHOOSE j \in 1..Len(row) :
    /\ \A m \in 1..Len(row) : row[m] <= row[j]
    /\ \A m \in 1..(j - 1) : row[m] < row[j]

\* equality and sign of fractions with non-zero denominators
RatEq(a, b) == a[2] # 0 /\ b[2] # 0 /\ a[1] * b[2] = b[1] * a[2]

RatNeg(a) == << -a[1], a[2] >>

RatGeqZero(a) == a[2] # 0 /\ a[1] * a[2] >= 0

\* ------------------------------------------------------------ expressions
\* the values a built expression takes on the data e bound to the placeholders

\* Loss.diff: output - (self.input if self.target is None else self.target)
Loss_diff_value(self, e) ==
  LET ref == IF self.target = None THEN e.input ELSE e.target
  IN [i \in 1..Len(e.output) |-> e.output[i] - ref[i]]

\* MeanSquaredError.__call__
MeanSquaredError_value(self, e) ==
  LET err == Loss_diff_value(self, e)
  IN IF self.weight # None
     THEN << Sum([i \in 1..Len(err) |-> e.weight[i] * err[i] * err[i]]),
             Sum(e.weight) >>
     ELSE Mean([i \in 1..Len(err) |-> err[i] * err[i]])

\* the mutant of C4 and C5: the weighted sum is taken without abs
MeanAbsoluteError_value_NoAbs(self, e) ==
  LET err == Loss_diff_value(self, e)
  IN IF self.weight # None
     THEN << Sum([i \in 1..Len(err) |-> e.weight[i] * err[i]]),
             Sum(e.weight) >>
     ELSE Mean([i \in 1..Len(err) |-> Abs(err[i])])

\* MeanAbsoluteError.__call__
MeanAbsoluteError_value(self, e) ==
  LET err == Loss_diff_value(self, e)
  IN IF self.weight # None
     THEN << Sum([i \in 1..Len(err) |-> Abs(e.weight[i] * err[i])]),
             Sum(e.weight) >>
     ELSE Mean([i \in 1..Len(err) |-> Abs(err[i])])

\* the mutant of C6: the difference is not clamped at zero
Hinge_value_NoClamp(self, e) ==
  LET err == Loss_diff_value(self, e)
  IN IF self.weight # None
     THEN << Sum([i \in 1..Len(err) |-> e.weight[i] * err[i]]), Sum(e.weight) >>
     ELSE Mean(err)

\* Hinge.__call__
Hinge_value(self, e) ==
  LET d == Loss_diff_value(self, e)
      err == [i \in 1..Len(d) |-> Maximum(0, d[i])]
  IN IF self.weight # None
     THEN << Sum([i \in 1..Len(err) |-> e.weight[i] * err[i]]), Sum(e.weight) >>
     ELSE Mean(err)

\* row i (1-based) of output.reshape((-1, k))
Row(e, i) == [j \in 1..e.k |-> e.output[(i - 1) * e.k + j]]

\* CrossEntropy.__call__
CrossEntropy_value(self, e) ==
  LET n == Len(e.target)
      prob == [i \in 1..n |-> Row(e, i)[e.target[i] + 1]]
      nlp == [i \in 1..n |-> NegLogClip(prob[i])]
  IN IF self.weight # None
     THEN << Sum([i \in 1..n |-> e.weight[i] * nlp[i]]), Sum(e.weight) >>
     ELSE Mean(nlp)

\* TT.eq(predict, self.target), as 0 or 1 per row
Correct(e) ==
  [i \in 1..Len(e.target) |->
     IF ArgMax(Row(e, i)) - 1 = e.target[i] THEN 1 ELSE 0]

\* the mutant of C8: the weighted sum over the number of rows
CrossEntropy_accuracy_value_OverCount(self, e) ==
  LET correct == Correct(e)
  IN IF self.weight # None
     THEN << Sum([i \in 1..Len(correct) |-> e.weight[i] * correct[i]]),
             Len(correct) >>
     ELSE Mean(correct)

\* CrossEntropy.accuracy
CrossEntropy_accuracy_value(self, e) ==
  LET correct == Correct(e)
  IN IF self.weight # None
     THEN << Sum([i \in 1..Len(correct) |-> e.weight[i] * correct[i]]),
             Sum(e.weight) >>
     ELSE Mean(correct)

\* what a class's __call__ evaluates to
Value(c, self, e) ==
  CASE c = "MeanSquaredError" -> MeanSquaredError_value(self, e)
    [] c = "MeanAbsoluteError" -> MeanAbsoluteError_value(self, e)
    [] c = "Hinge" -> Hinge_value(self, e)
    [] c = "CrossEntropy" -> CrossEntropy_value(self, e)

\* data of a placeholder: at least one element, exactly one for a scalar
Fits(p, data) == Len(data) >= 1 /\ (p[1].rank = 0 => Len(data) = 1)

\* the data agrees in shape for the elementwise expressions
ElemShaped(self, e) ==
  LET ref == IF self.target = None THEN e.input ELSE e.target
      p == IF self.target = None THEN self.input ELSE self.target
  IN /\ Fits(p, ref)
     /\ Len(e.output) = Len(ref)
     /\ self.weight # None => Len(e.weight) = Len(ref)

\* the data agrees in shape for CrossEntropy: n rows of k entries, one class
\* index in 0..k-1 and (if weighted) one weight per row
RowShaped(self, e) ==
  /\ self.target # None
  /\ Fits(self.target, e.target)
  /\ e.k >= 1
  /\ Len(e.output) = Len(e.target) * e.k
  /\ \A i \in 1..Len(e.target) : e.target[i] \in 0..(e.k - 1)
  /\ self.weight # None => Len(e.weight) = Len(e.target)

\* ------------------------------------------------------------------ state
VARIABLES
  pc,         \* "init" before the constructor ran, then "built" or "failed"
  cls,        \* the class being constructed
  in_dim,     \* constructor arguments
  out_dim,
  weighted,
  input,      \* self.input, self.target, self.weight, self.variables
  target,
  weight,
  variables,
  error,      \* the exception the last operation raised, or "none"
  env,        \* output and the data bound to the placeholders at execution
  lastop,     \* the last method called on the instance
  result      \* the value of the expression it built, on env

args == << cls, in_dim, out_dim, weighted >>

fields == << input, target, weight, variables >>

vars == << pc, args, fields, error, env, lastop, result >>

Self == [input |-> input, target |-> target, weight |-> weight]

Dims == (-(Len(F_CONTAINERS) + DimSlack))..(Len(F_CONTAINERS) - 1 + DimSlack)

OutDims == {None} \cup {<< d >> : d \in Dims}

\* data for the runs that construct: one element everywhere (fits any rank),
\* and one row of two classes
SmallEnvs ==
  { [output |-> << 1 >>, k |-> 1, input |-> << 0 >>, target |-> << 0 >>,
     weight |-> << 1 >>],
    [output |-> << 0, 1 >>, k |-> 1, input |-> << 1, 1 >>,
     target |-> << 0, 0 >>, weight |-> << 2, -1 >>],
    [output |-> << -1, 0 >>, k |-> 2, input |-> << 0, 0 >>,
     target |-> << 1 >>, weight |-> << 2 >>] }

Init ==
  /\ pc = "init"
  /\ cls = "none"
  /\ in_dim = 0
  /\ out_dim = None
  /\ weighted = FALSE
  /\ input = None
  /\ target = None
  /\ weight = None
  /\ variables = << >>
  /\ error = "none"
  /\ env \in SmallEnvs
  /\ lastop = "none"
  /\ result = << >>

\* cls(in_dim, out_dim, weighted): an exception leaves no instance
Construct ==
  /\ pc = "init"
  /\ \E c \in Classes, i \in Dims, o \in OutDims, w \in BOOLEAN :
       LET self == New(c, i, o, w)
       IN /\ cls' = c
          /\ in_dim' = i
          /\ out_dim' = o
          /\ weighted' = w
          /\ input' = self.input
          /\ target' = self.target
          /\ weight' = self.weight
          /\ variables' = self.variables
          /\ error' = self.error
          /\ pc' = IF self.error = "none" THEN "built" ELSE "failed"
  /\ UNCHANGED << env, lastop, result >>

\* the mutant of C7: diff stores the fallback it used as the target
Loss_diff_StoresTarget ==
  /\ pc = "built"
  /\ ElemShaped(Self, env)
  /\ result' = Loss_diff_value(Self, env)
  /\ lastop' = "diff"
  /\ error' = "none"
  /\ target' = IF target = None THEN input ELSE target
  /\ UNCHANGED << pc, args, input, weight, variables, env >>

\* self.diff(output)
Loss_diff ==
  /\ pc = "built"
  /\ ElemShaped(Self, env)
  /\ result' = Loss_diff_value(Self, env)
  /\ lastop' = "diff"
  /\ error' = "none"
  /\ UNCHANGED << pc, args, fields, env >>

\* Loss.__call__ raises NotImplementedError
Loss_call ==
  /\ pc = "built"
  /\ cls = "Loss"
  /\ result' = << >>
  /\ lastop' = "call"
  /\ error' = "NotImplementedError"
  /\ UNCHANGED << pc, args, fields, env >>

MeanSquaredError_call ==
  /\ pc = "built"
  /\ cls = "MeanSquaredError"
  /\ ElemShaped(Self, env)
  /\ result' = MeanSquaredError_value(Self, env)
  /\ lastop' = "call"
  /\ error' = "none"
  /\ UNCHANGED << pc, args, fields, env >>

MeanAbsoluteError_call ==
  /\ pc = "built"
  /\ cls = "MeanAbsoluteError"
  /\ ElemShaped(Self, env)
  /\ result' = MeanAbsoluteError_value(Self, env)
  /\ lastop' = "call"
  /\ error' = "none"
  /\ UNCHANGED << pc, args, fields, env >>

Hinge_call ==
  /\ pc = "built"
  /\ cls = "Hinge"
  /\ ElemShaped(Self, env)
  /\ result' = Hinge_value(Self, env)
  /\ lastop' = "call"
  /\ error' = "none"
  /\ UNCHANGED << pc, args, fields, env >>

CrossEntropy_call ==
  /\ pc = "built"
  /\ cls = "CrossEntropy"
  /\ RowShaped(Self, env)
  /\ result' = CrossEntropy_value(Self, env)
  /\ lastop' = "call"
  /\ error' = "none"
  /\ UNCHANGED << pc, args, fields, env >>

CrossEntropy_accuracy ==
  /\ pc = "built"
  /\ cls = "CrossEntropy"
  /\ RowShaped(Self, env)
  /\ result' = CrossEntropy_accuracy_value(Self, env)
  /\ lastop' = "accuracy"
  /\ error' = "none"
  /\ UNCHANGED << pc, args, fields, env >>

Next ==
  \/ Construct
  \/ Loss_diff
  \/ Loss_call
  \/ MeanSquaredError_call
  \/ MeanAbsoluteError_call
  \/ Hinge_call
  \/ CrossEntropy_call
  \/ CrossEntropy_accuracy

Spec == Init /\ [][Next]_vars

\* ------------------------------------------------------------ evaluation
\* The formulas on bounded data: the state after constructing one instance
\* per class over vectors (a matrix of two-class rows for CrossEntropy), with
\* every choice of data up to the bounds bound to its placeholders.

Vals == 0..MaxVal

Weights == (-1)..MaxWt

\* log10 of the probabilities: one below the clipping bound, and 1
LogProbs == {-(ClipExp + 1), 0}

ClassIds == {0, 1}

Vec(n, S) == [1..n -> S]

WeightData(self, n) == IF self.weight = None THEN {<< >>} ELSE Vec(n, Weights)

\* the data of an elementwise loss: n outputs, n reference values bound to the
\* placeholder diff reads, and (if weighted) n weights
ElemEnv(self, o, r, w) ==
  [output |-> o, k |-> Len(o),
   input |-> IF self.target = None THEN r ELSE << >>,
   target |-> IF self.target = None THEN << >> ELSE r,
   weight |-> w]

\* the data of a CrossEntropy loss: n rows of log-probabilities, n class
\* indices and (if weighted) n weights
RowEnv(o, t, w) ==
  [output |-> o, k |-> Cardinality(ClassIds), input |-> << >>, target |-> t,
   weight |-> w]

EvalInit ==
  /\ pc = "built"
  /\ cls \in Classes \ {"Loss"}
  /\ in_dim = IF cls = "CrossEntropy" THEN 2 ELSE 1
  /\ out_dim \in {None, << 1 >>}
  /\ weighted \in BOOLEAN
  /\ LET self == New(cls, in_dim, out_dim, weighted)
     IN /\ self.error = "none"
        /\ input = self.input
        /\ target = self.target
        /\ weight = self.weight
        /\ variables = self.variables
        /\ \E n \in 1..MaxLen :
             \E w \in WeightData(self, n) :
               IF cls = "CrossEntropy"
               THEN \E o \in Vec(n * Cardinality(ClassIds), LogProbs),
                       t \in Vec(n, ClassIds) : env = RowEnv(o, t, w)
               ELSE \E o \in Vec(n, Vals), r \in Vec(n, Vals) :
                       env = ElemEnv(self, o, r, w)
  /\ error = "none"
  /\ lastop = "none"
  /\ result = << >>

EvalNext ==
  \/ Loss_diff
  \/ MeanSquaredError_call
  \/ MeanAbsoluteError_call
  \/ Hinge_call
  \/ CrossEntropy_call
  \/ CrossEntropy_accuracy

EvalSpec == EvalInit /\ [][EvalNext]_vars

\* ----------------------------------------------------------------- claims
Ranks == 0..(Len(F_CONTAINERS) - 1)

Built == pc = "built"

\* C1: a base-class instance built with in_dim in 0..4 and a supplied out_dim
\* in 0..4 (0 included) has a separate float target of rank out_dim, and it
\* is without a target only when out_dim was not supplied.
C1_TargetWheneverOutDimGiven ==
  (Built /\ cls \in BaseClasses /\ in_dim \in Ranks
     /\ (out_dim # None => out_dim[1] \in Ranks))
  => /\ out_dim # None =>
          /\ target # None
          /\ target[1].kind = "float"
          /\ target[1].rank = out_dim[1]
          /\ target[1].id # input[1].id
     /\ target = None => out_dim = None

\* C2: constructing with an integer in_dim or out_dim outside 0..4 fails with
\* an IndexError and produces no placeholders.
C2_OutsideRanksFails ==
  (pc # "init" /\ (cls = "CrossEntropy" => out_dim # None)
     /\ (in_dim \notin Ranks \/ (out_dim # None /\ out_dim[1] \notin Ranks)))
  => /\ pc = "failed"
     /\ error = "IndexError"
     /\ input = None /\ target = None /\ weight = None /\ variables = << >>

\* C3: the weight placeholder is present iff weighted was passed, and its rank
\* is the target's rank if there is a target, else the input's rank.
C3_WeightIffWeighted ==
  Built =>
    /\ weight # None <=> weighted
    /\ weight # None =>
         weight[1].rank = IF target # None THEN target[1].rank
                          ELSE input[1].rank

C3_Witness ==
  /\ Built /\ weighted /\ weight # None
  /\ target # None /\ target[1].rank = 2 /\ input[1].rank = 1

Uniform(w, c) == \A i \in 1..Len(w) : w[i] = c

\* the same class constructed with the same arguments but weighted=False
Unweighted == New(cls, in_dim, out_dim, FALSE)

WeightedCall == Built /\ lastop = "call" /\ error = "none" /\ weight # None

\* C4 as stated: with a uniform non-zero weight c, every weighted loss equals
\* the unweighted loss on the same data.
C4_UniformEqualsUnweighted ==
  \A c \in Weights \ {0} :
    (WeightedCall /\ Uniform(env.weight, c))
    => RatEq(result, Value(cls, Unweighted, env))

\* C4 amended: with a uniform non-zero weight c the weighted loss equals the
\* unweighted loss for Hinge, MeanSquaredError and CrossEntropy, and for
\* MeanAbsoluteError when c > 0; for MeanAbsoluteError with c < 0 it is the
\* negated unweighted loss.
C4_UniformUpToSign ==
  \A c \in Weights \ {0} :
    (WeightedCall /\ Uniform(env.weight, c))
    => IF cls = "MeanAbsoluteError" /\ c < 0
       THEN RatEq(result, RatNeg(Value(cls, Unweighted, env)))
       ELSE RatEq(result, Value(cls, Unweighted, env))

C4_Witness ==
  /\ WeightedCall /\ cls = "MeanAbsoluteError"
  /\ Len(env.weight) = 2 /\ Uniform(env.weight, -1)
  /\ result[1] # 0

\* the weighted sum of sum(weight_i * |diff_i|) over sum(weight)
WeightedAbsMean(d, w) ==
  << Sum([i \in 1..Len(d) |-> w[i] * Abs(d[i])]), Sum(w) >>

\* C5 as stated: weighted MeanAbsoluteError is sum(weight_i * |diff_i|) /
\* sum(weight) for every weight vector of non-zero sum.
C5_WeightTimesAbs ==
  (WeightedCall /\ cls = "MeanAbsoluteError" /\ Sum(env.weight) # 0)
  => RatEq(result, WeightedAbsMean(Loss_diff_value(Self, env), env.weight))

\* C5 amended: the same, for weight vectors of non-zero sum without negative
\* entries.
C5_WeightTimesAbsNonNegative ==
  (WeightedCall /\ cls = "MeanAbsoluteError" /\ Sum(env.weight) # 0
     /\ \A i \in 1..Len(env.weight) : env.weight[i] >= 0)
  => RatEq(result, WeightedAbsMean(Loss_diff_value(Self, env), env.weight))

C5_Witness ==
  /\ WeightedCall /\ cls = "MeanAbsoluteError"
  /\ env.weight = << 2, 1 >>
  /\ Loss_diff_value(Self, env) = << -1, 1 >>
  /\ RatEq(result, << 1, 1 >>)

\* C6 as stated: the Hinge loss is >= 0, unweighted and with any weight vector
\* of non-zero sum.
C6_HingeNonNegative ==
  (Built /\ lastop = "call" /\ cls = "Hinge"
     /\ (weight # None => Sum(env.weight) # 0))
  => RatGeqZero(result)

\* C6 amended: the Hinge loss is >= 0, unweighted and with any weight vector
\* of non-zero sum whose entries are all >= 0 or all <= 0.
C6_HingeNonNegativeOneSign ==
  (Built /\ lastop = "call" /\ cls = "Hinge"
     /\ (weight # None =>
           /\ Sum(env.weight) # 0
           /\ \/ \A i \in 1..Len(env.weight) : env.weight[i] >= 0
              \/ \A i \in 1..Len(env.weight) : env.weight[i] <= 0))
  => RatGeqZero(result)

C6_Witness ==
  /\ WeightedCall /\ cls = "Hinge"
  /\ env.weight = << -1, 0 >>
  /\ Loss_diff_value(Self, env) = << 1, -1 >>
  /\ RatEq(result, << 1, 1 >>)

\* C7: diff, __call__ and accuracy leave input, target, weight and variables
\* as the constructor set them.
C7_CallsKeepFields == [][Built => UNCHANGED fields]_vars

C7_Witness ==
  /\ Built /\ lastop = "accuracy"
  /\ weight # None /\ Len(variables) = 3

\* t is the class TT.argmax picks in a row: the first of its largest entries
Picks(row, t) ==
  /\ t + 1 \in 1..Len(row)
  /\ \A m \in 1..Len(row) : row[m] <= row[t + 1]
  /\ \A m \in 1..t : row[m] < row[t + 1]

Hit(i) == Picks(Row(env, i), env.target[i])

\* C8: accuracy is 1 when the argmax of every row is its target and 0 when
\* that of no row is, unweighted and with any weights of non-zero sum, where
\* it is sum(weight_i * correct_i) / sum(weight).
C8_AccuracyAllOrNone ==
  (Built /\ lastop = "accuracy" /\ (weight # None => Sum(env.weight) # 0))
  => LET rows == 1..Len(env.target)
     IN /\ (\A i \in rows : Hit(i)) => RatEq(result, << 1, 1 >>)
        /\ (\A i \in rows : ~Hit(i)) => RatEq(result, << 0, 1 >>)
        /\ weight # None =>
             RatEq(result,
                   << Sum([i \in rows |-> IF Hit(i) THEN env.weight[i] ELSE 0]),
                      Sum(env.weight) >>)

C8_Witness ==
  /\ Built /\ lastop = "accuracy" /\ weight # None
  /\ env.weight = << 2, -1 >>
  /\ \A i \in 1..Len(env.target) : Hit(i)
  /\ RatEq(result, << 1, 1 >>)

\* C9: a CrossEntropy instance built with out_dim in 0..4 has an integer
\* target of rank out_dim that is not the input; no CrossEntropy instance is
\* without a target, and none is built without out_dim.
C9_IntegerTarget ==
  (pc # "init" /\ cls = "CrossEntropy")
  => /\ out_dim = None => pc = "failed"
     /\ Built =>
          /\ target # None
          /\ target[1].kind = "int"
          /\ target[1].id # input[1].id
          /\ out_dim[1] \in Ranks => target[1].rank = out_dim[1]

C9_Witness ==
  /\ Built /\ cls = "CrossEntropy" /\ out_dim = << 0 >>
  /\ target # None /\ target[1].rank = 0

\* C10: variables is the non-None placeholders in the order input, target,
\* weight, each once, so of length 1 + (target present) + (weight present).
C10_VariablesInOrder ==
  Built =>
    /\ Len(input) = 1
    /\ variables = (input \o target) \o weight
    /\ \A i, j \in 1..Len(variables) :
         variables[i].id = variables[j].id => i = j
    /\ Len(variables) = 1 + (IF target # None THEN 1 ELSE 0)
                          + (IF weight # None THEN 1 ELSE 0)

C10_Witness ==
  /\ Built /\ cls \in BaseClasses
  /\ target # None /\ weight # None /\ Len(variables) = 3

====
